---- MODULE Spec2Model ----
(***************************************************************************)
(* cargo-cache: the "top items" aggregation and ranking pipeline.          *)
(*   src/src/cache/dircache.rs            get_cache_name                   *)
(*   src/src/top_items/git_repos_bare.rs  bare git repos                   *)
(*   src/src/top_items/registry_sources.rs registry sources                *)
(* Strings are sequences of one-character strings; the empty string is     *)
(* <<>>.  A report is a sequence of lines, each line a record of the       *)
(* values formatted into it (every line holds literal text and ends with a *)
(* newline, so the report is the empty string iff it has no lines).        *)
(***************************************************************************)
EXTENDS Integers, Sequences, FiniteSets, TLC

\* ---------------------------------------------------------------- bounds
MaxLen == 3      \* longest descriptor list / directory listing
MaxSize == 2     \* largest byte length of one entry
MaxLimit == 4    \* largest `limit` handed to a report
MaxStr == 5      \* longest basename handed to the identity decoder
DirLen == 1      \* metadata length reported for a cache entry's directory

\* TOP_CRATES_SPACING (crate::top_items::common); the tests' expected rows
\* pad "crateA" to 9 columns.
TOP_CRATES_SPACING == 3

\* --------------------------------------------------------------- strings
Dash == "-"
Slash == "/"

Str(n) == UNION {[1..k -> {"a", "b", "-"}] : k \in 0..n}

\* byte order of the characters used (ASCII)
CharRank(c) ==
  CASE c = "-" -> 45 [] c = "/" -> 47
    [] c = "A" -> 65 [] c = "B" -> 66
    [] c = "a" -> 97 [] c = "b" -> 98 [] c = "c" -> 99
    [] c = "i" -> 105 [] c = "j" -> 106
    [] c = " " -> 32
    [] c = "x" -> 120 [] c = "y" -> 121
    [] OTHER -> 122

\* str::split(sep).collect::<Vec<_>>()
RECURSIVE Split(_, _)
Split(s, sep) ==
  IF \A i \in 1..Len(s) : s[i] # sep THEN <<s>>
  ELSE LET k == CHOOSE i \in 1..Len(s) :
                   s[i] = sep /\ \A j \in 1..(i - 1) : s[j] # sep
       IN <<SubSeq(s, 1, k - 1)>> \o Split(SubSeq(s, k + 1, Len(s)), sep)

\* Vec::pop (the popped value is dropped)
Pop(v) == IF Len(v) = 0 THEN v ELSE SubSeq(v, 1, Len(v) - 1)

\* [&str]::join(sep)
RECURSIVE Join(_, _)
Join(v, sep) ==
  IF Len(v) = 0 THEN <<>>
  ELSE IF Len(v) = 1 THEN v[1]
  ELSE v[1] \o <<sep>> \o Join(Tail(v), sep)

\* a decoder that keeps only the first segment
get_cache_name_first(last) ==
  LET v == Split(last, Dash) IN IF Len(v) <= 1 THEN <<>> ELSE v[1]

\* get_cache_name, applied to the last path element
get_cache_name(last) == Join(Pop(Split(last, Dash)), Dash)

\* path.to_str().split('/').last()
LastItem(path) == LET v == Split(path, Slash) IN v[Len(v)]

\* ----------------------------------------------------------------- state
VARIABLES
  mode,          \* which entry point runs: a report function, a unit of it
  pc,            \* position in the running function
  rootExists,    \* the cache root is a directory on disk
  folders,       \* the entries listed under the root: [index, base, size]
  existing,      \* basenames of the entry paths that exist on disk
  calls,         \* calls made to the lazy cache and to the directory walker
  file_descs,    \* Vec<FileDesc> handed to the aggregator
  iter,          \* file_descs.into_iter(): what is still to come
  state,         \* Pair {current, previous}
  repoinfo, counter, total_size, out,
  current_name, previous_name, summary,
  limit, output,
  alive, meta, toVisit, collected, size, panic_path,
  basename, name

vars == <<mode, pc, rootExists, folders, existing, calls, file_descs, iter,
          state, repoinfo, counter, total_size, out, current_name,
          previous_name, summary, limit, output, alive, meta, toVisit,
          collected, size, panic_path, basename, name>>

fsVars == <<rootExists, folders, existing>>
bareVars == <<iter, state, repoinfo, counter, out>>
regVars == <<current_name, previous_name, summary>>
walkVars == <<alive, meta, toVisit, collected, size, panic_path>>
decVars == <<basename, name>>

\* Option<T>
None == <<>>
Some(x) == <<x>>
is_some(o) == o # None
unwrap(o) == o[1]

Min(a, b) == IF a <= b THEN a ELSE b

\* Iterator::sum over a sequence of numbers
RECURSIVE Sum(_)
Sum(s) == IF s = <<>> THEN 0 ELSE Head(s) + Sum(Tail(s))

\* ------------------------------------------------------------ bare repos
ERR1 == <<"e", "r", "r", "1">>   \* file name of "ERROR 1/err1"
ERR2 == <<"e", "r", "r", "2">>   \* file name of "ERROR 2/err2"

\* Path::exists of an entry path
PathExists(path) == path \in existing

\* RepoInfo::new(path, counter, total_size); path is the file name
RepoInfo_new(path, cnt, total) ==
  IF PathExists(path)
  THEN [name |-> get_cache_name(path), size |-> DirLen, counter |-> cnt,
        total_size |-> total]
  ELSE [name |-> path, size |-> 0, counter |-> cnt, total_size |-> total]

\* FileDesc::new_from_git_bare: the name is decoded from the file name, the
\* size is the walker's sum for the entry
new_from_git_bare(entry) ==
  [path |-> entry.base, name |-> get_cache_name(entry.base),
   size |-> entry.size]

\* the accumulators of stats_from_file_desc_list
Acc == [out |-> out, repoinfo |-> repoinfo, counter |-> counter,
        total_size |-> total_size]

\* the folding arm without the increment of the counter
ArmFold_nocount(acc, cur) ==
  LET t == acc.total_size + cur.size
      c == acc.counter
  IN [out |-> acc.out, repoinfo |-> RepoInfo_new(cur.path, c, t),
      counter |-> c, total_size |-> t]

\* arm (Some(current), None), and arm (Some, Some) with equal names
ArmFold(acc, cur) ==
  LET t == acc.total_size + cur.size
      c == acc.counter + 1
  IN [out |-> acc.out, repoinfo |-> RepoInfo_new(cur.path, c, t),
      counter |-> c, total_size |-> t]

\* the differing-names arm without the reset of the counters
ArmDiffer_noreset(acc, cur) ==
  LET t == acc.total_size + cur.size
      c == acc.counter + 1
  IN [out |-> Append(acc.out, acc.repoinfo),
      repoinfo |-> RepoInfo_new(cur.path, c, t),
      counter |-> c, total_size |-> t]

\* the differing-names arm without the push of the finished line
ArmDiffer_nopush(acc, cur) ==
  LET t == 0 + cur.size
      c == 0 + 1
  IN [out |-> acc.out,
      repoinfo |-> RepoInfo_new(cur.path, c, t),
      counter |-> c, total_size |-> t]

\* arm (Some, Some) with differing names
ArmDiffer(acc, cur) ==
  LET t == 0 + cur.size
      c == 0 + 1
  IN [out |-> Append(acc.out, acc.repoinfo),
      repoinfo |-> RepoInfo_new(cur.path, c, t),
      counter |-> c, total_size |-> t]

\* arm (None, Some(_previous))
ArmLast(acc) ==
  [out |-> Append(acc.out, acc.repoinfo),
   repoinfo |-> RepoInfo_new(ERR2, 0, 0), counter |-> 0, total_size |-> 0]

SetAcc(acc) ==
  /\ out' = acc.out
  /\ repoinfo' = acc.repoinfo
  /\ counter' = acc.counter
  /\ total_size' = acc.total_size

\* state.previous = state.current; state.current = iter.next();
Advance ==
  /\ state' = [previous |-> state.current,
               current |-> IF iter = <<>> THEN None ELSE Some(Head(iter))]
  /\ iter' = IF iter = <<>> THEN iter ELSE Tail(iter)

\* stats_from_file_desc_list up to the loop
FoldEnter ==
  /\ pc = "fold_enter"
  /\ out' = <<>>
  /\ repoinfo' = RepoInfo_new(ERR1, 0, 0)
  /\ counter' = 0
  /\ total_size' = 0
  /\ state' = [previous |-> None,
               current |-> IF file_descs = <<>> THEN None
                           ELSE Some(Head(file_descs))]
  /\ iter' = IF file_descs = <<>> THEN <<>> ELSE Tail(file_descs)
  /\ pc' = "fold_loop"
  /\ UNCHANGED <<mode, fsVars, calls, file_descs, regVars, limit, output,
                 walkVars, decVars>>

FoldFrame ==
  UNCHANGED <<mode, pc, fsVars, calls, file_descs, regVars, limit, output,
              walkVars, decVars>>

FoldFirst ==
  /\ pc = "fold_loop"
  /\ is_some(state.current) /\ ~is_some(state.previous)
  /\ SetAcc(ArmFold(Acc, unwrap(state.current)))
  /\ Advance
  /\ FoldFrame

FoldSame ==
  /\ pc = "fold_loop"
  /\ is_some(state.current) /\ is_some(state.previous)
  /\ unwrap(state.current).name = unwrap(state.previous).name
  /\ SetAcc(ArmFold(Acc, unwrap(state.current)))
  /\ Advance
  /\ FoldFrame

FoldDiffer ==
  /\ pc = "fold_loop"
  /\ is_some(state.current) /\ is_some(state.previous)
  /\ unwrap(state.current).name # unwrap(state.previous).name
  /\ SetAcc(ArmDiffer(Acc, unwrap(state.current)))
  /\ Advance
  /\ FoldFrame

FoldLast ==
  /\ pc = "fold_loop"
  /\ ~is_some(state.current) /\ is_some(state.previous)
  /\ SetAcc(ArmLast(Acc))
  /\ Advance
  /\ FoldFrame

\* a return that first pushes whatever the accumulator holds
FoldReturn_flush ==
  /\ pc = "fold_loop"
  /\ ~is_some(state.current) /\ ~is_some(state.previous)
  /\ out' = Append(out, repoinfo)
  /\ pc' = "fmt"
  /\ UNCHANGED <<mode, fsVars, calls, file_descs, iter, state, repoinfo,
                 counter, total_size, regVars, limit, output, walkVars,
                 decVars>>

\* the loop condition fails: return out
FoldReturn ==
  /\ pc = "fold_loop"
  /\ ~is_some(state.current) /\ ~is_some(state.previous)
  /\ pc' = "fmt"
  /\ UNCHANGED <<mode, fsVars, calls, file_descs, bareVars, total_size,
                 regVars, limit, output, walkVars, decVars>>

\* slice::sort is stable: x goes behind everything that is not greater
InsertSorted(s, x) ==
  LET k == Cardinality({i \in 1..Len(s) : s[i].total_size <= x.total_size})
  IN SubSeq(s, 1, k) \o <<x>> \o SubSeq(s, k + 1, Len(s))

\* collections_vec.sort(): ascending by Ord for RepoInfo, i.e. by total_size
RECURSIVE SortAsc(_)
SortAsc(v) ==
  IF v = <<>> THEN <<>> ELSE InsertSorted(SortAsc(Pop(v)), v[Len(v)])

\* Vec::reverse
Reverse(v) == [i \in 1..Len(v) |-> v[Len(v) + 1 - i]]

\* a ranking that does not sort
RankDesc_unsorted(v) == v

\* a ranking by a stable descending sort (sort_by(|a, b| b.cmp(a)))
RankDesc_stable(v) == Reverse(SortAsc(Reverse(v)))

\* collections_vec.sort(); collections_vec.reverse();
RankDesc(v) == Reverse(SortAsc(v))

\* Iterator::take
Take(v, n) == SubSeq(v, 1, Min(n, Len(v)))

\* .map(|p| p.name.len()).max().unwrap_or(0)
MaxNameLen(v) ==
  IF v = <<>> THEN 0
  ELSE LET lens == {Len(v[i].name) : i \in 1..Len(v)}
       IN CHOOSE m \in lens : \A k \in lens : k <= m

\* one formatted line of chkout_list_to_string: the values it prints (both
\* sizes go through file_size(DECIMAL), which keeps numbers apart)
Row(r, width) ==
  [kind |-> "row", name |-> r.name, counter |-> r.counter,
   avg |-> r.total_size \div r.counter, total |-> r.total_size,
   width |-> width]

\* the records chkout_list_to_string renders
Shown(l, v) == Take(RankDesc(v), l)

\* total_size / u64::from(counter) panics on a zero counter
ChkoutPanics(l, v) == \E i \in 1..Len(Shown(l, v)) : Shown(l, v)[i].counter = 0

\* a formatter that takes the column width from all records, cut or not
chkout_list_to_string_allNames(l, v) ==
  LET shown == Shown(l, v)
      width == MaxNameLen(v) + TOP_CRATES_SPACING
  IN [i \in 1..Len(shown) |-> Row(shown[i], width)]

\* chkout_list_to_string(limit, collections_vec)
chkout_list_to_string(l, v) ==
  LET shown == Shown(l, v)
      width == MaxNameLen(shown) + TOP_CRATES_SPACING
  IN [i \in 1..Len(shown) |-> Row(shown[i], width)]

\* the formatter is called with some limit
Chkout ==
  /\ pc = "fmt"
  /\ \E l \in 0..MaxLimit :
       /\ limit' = l
       /\ IF ChkoutPanics(l, out)
          THEN pc' = "panicked" /\ output' = output
          ELSE pc' = "done" /\ output' = output \o chkout_list_to_string(l, out)
  /\ UNCHANGED <<mode, fsVars, calls, file_descs, bareVars, total_size,
                 regVars, walkVars, decVars>>

\* dir_exists(path) (crate::top_items::common)
dir_exists == rootExists

\* cache.git_repos_bare.total_size(): the memoized byte sum of the root
CacheTotalSize == Sum([i \in 1..Len(folders) |-> folders[i].size])

\* "\nSummary of: {} ({} total)\n"
BareHeader == [kind |-> "summary", total |-> Some(CacheTotalSize)]

\* file_desc_from_path: one descriptor per listed folder, in listing order
file_desc_from_path == [i \in 1..Len(folders) |-> new_from_git_bare(folders[i])]

\* a report that writes its header before it looks for the directory
BareStatsBody_headerFirst ==
  /\ calls' = IF dir_exists THEN <<"total_size", "bare_repo_folders", "walk">>
              ELSE <<"total_size">>
  /\ output' = <<BareHeader>>
  /\ file_descs' = IF dir_exists THEN file_desc_from_path ELSE <<>>
  /\ pc' = IF dir_exists THEN "fold_enter" ELSE "done"

\* a report that leaves the header out when nothing is listed
BareStatsBody_noHeader ==
  IF ~dir_exists
  THEN /\ output' = <<>>
       /\ pc' = "done"
       /\ UNCHANGED <<calls, file_descs>>
  ELSE /\ calls' = <<"total_size", "bare_repo_folders", "walk">>
       /\ output' = IF folders = <<>> THEN <<>> ELSE <<BareHeader>>
       /\ file_descs' = file_desc_from_path
       /\ pc' = "fold_enter"

\* git_repos_bare_stats up to the call of stats_from_file_desc_list
BareStatsBody ==
  IF ~dir_exists
  THEN /\ output' = <<>>
       /\ pc' = "done"
       /\ UNCHANGED <<calls, file_descs>>
  ELSE /\ calls' = <<"total_size", "bare_repo_folders", "walk">>
       /\ output' = <<BareHeader>>
       /\ file_descs' = file_desc_from_path
       /\ pc' = "fold_enter"

git_repos_bare_stats ==
  /\ pc = "bare_stats"
  /\ BareStatsBody
  /\ UNCHANGED <<mode, fsVars, bareVars, total_size, regVars, limit,
                 walkVars, decVars>>

\* ------------------------------------------------------ registry sources
\* the full path of a listed crate directory below the root
RegPath(entry) == entry.index \o <<Slash>> \o entry.base

Ranks(str) == [i \in 1..Len(str) |-> CharRank(str[i])]

\* lexicographic order of two sequences of numbers
RECURSIVE LexLeq(_, _)
LexLeq(a, b) ==
  IF a = <<>> THEN TRUE
  ELSE IF b = <<>> THEN FALSE
  ELSE IF Head(a) # Head(b) THEN Head(a) < Head(b)
  ELSE LexLeq(Tail(a), Tail(b))

\* Ord for PathBuf: component by component, each by its bytes
RECURSIVE ComponentsLeq(_, _)
ComponentsLeq(a, b) ==
  IF a = <<>> THEN TRUE
  ELSE IF b = <<>> THEN FALSE
  ELSE IF Head(a) # Head(b) THEN LexLeq(Ranks(Head(a)), Ranks(Head(b)))
  ELSE ComponentsLeq(Tail(a), Tail(b))

PathLeq(p, q) == ComponentsLeq(Split(p, Slash), Split(q, Slash))

\* collection.sort() on the listed entries, by path
RECURSIVE SortByPath(_)
SortByPath(v) ==
  IF v = <<>> THEN <<>>
  ELSE LET s == SortByPath(Pop(v))
           x == v[Len(v)]
           k == Cardinality({i \in 1..Len(s) : PathLeq(RegPath(s[i]), RegPath(x))})
       IN SubSeq(s, 1, k) \o <<x>> \o SubSeq(s, k + 1, Len(s))

\* FileDesc::new_from_reg_src: the name is decoded from the last item of the
\* path, the size is the walker's sum for the entry
new_from_reg_src(entry) ==
  [name |-> get_cache_name(LastItem(RegPath(entry))), size |-> entry.size]

\* file_desc_list_from_path: list every crate of every index, sort, build
file_desc_list_from_path ==
  LET collection == SortByPath(folders)
  IN [i \in 1..Len(collection) |-> new_from_reg_src(collection[i])]

\* max_cratename_len of states_from_file_desc_list: over all descriptors
RegMaxNameLen == MaxNameLen(file_descs)

\* decimal digits of a number, as bytes
RECURSIVE Digits(_)
Digits(n) ==
  IF n < 10 THEN <<48 + n>> ELSE Digits(n \div 10) \o <<48 + (n % 10)>>

\* {: <width$}: the bytes of a field padded with spaces on the right
PadRight(bytes, width) ==
  bytes \o [i \in 1..(IF Len(bytes) < width THEN width - Len(bytes) ELSE 0) |-> 32]

\* one line of the summary: the values it prints; key is the leading
\* zero-padded 20-digit total_size that the lines are sorted by
RegLine(total, nm, cnt, width) ==
  [kind |-> "row", key |-> Some(total), name |-> nm, counter |-> cnt,
   avg |-> total \div cnt, total |-> total, width |-> width]

\* the order of two lines as strings: the 20-digit key, then the padded
\* name, then the padded counter (what follows is fixed by these)
LineLeq(a, b) ==
  \/ unwrap(a.key) < unwrap(b.key)
  \/ /\ unwrap(a.key) = unwrap(b.key)
     /\ LexLeq(PadRight(Ranks(a.name), a.width) \o PadRight(Digits(a.counter), 3),
               PadRight(Ranks(b.name), b.width) \o PadRight(Digits(b.counter), 3))

\* summary.sort()
RECURSIVE SortLines(_)
SortLines(v) ==
  IF v = <<>> THEN <<>>
  ELSE LET s == SortLines(Pop(v))
           x == v[Len(v)]
           k == Cardinality({i \in 1..Len(s) : LineLeq(s[i], x)})
       IN SubSeq(s, 1, k) \o <<x>> \o SubSeq(s, k + 1, Len(s))

RegFrame ==
  UNCHANGED <<mode, fsVars, calls, file_descs, state, repoinfo, out, limit,
              output, walkVars, decVars>>

\* states_from_file_desc_list up to the for_each
RegEnter ==
  /\ pc = "reg_enter"
  /\ summary' = <<>>
  /\ current_name' = <<>>
  /\ previous_name' = <<>>
  /\ counter' = 1
  /\ total_size' = 0
  /\ iter' = file_descs
  /\ pc' = "reg_loop"
  /\ RegFrame

\* the closure of for_each, run on the next descriptor
RegStep ==
  /\ pc = "reg_loop"
  /\ iter # <<>>
  /\ LET pkg == Head(iter)
         total == total_size + pkg.size
     IN /\ current_name' = pkg.name
        /\ IF pkg.name = previous_name \/ (pkg.name # <<>> /\ previous_name = <<>>)
           THEN /\ summary' = Append(summary,
                                     RegLine(total, pkg.name, counter, RegMaxNameLen))
                /\ counter' = 1
                /\ total_size' = pkg.size
           ELSE /\ counter' = counter + 1
                /\ total_size' = total
                /\ summary' = summary
        /\ previous_name' = pkg.name
  /\ iter' = Tail(iter)
  /\ pc' = pc
  /\ RegFrame

\* summary.sort(); summary.reverse(); summary
RegSort ==
  /\ pc = "reg_loop"
  /\ iter = <<>>
  /\ summary' = Reverse(SortLines(summary))
  /\ pc' = IF mode = "registry_source_stats" THEN "reg_emit" ELSE "done"
  /\ UNCHANGED <<current_name, previous_name, counter, total_size, iter>>
  /\ RegFrame

\* "\nSummary of: {}\n"
RegHeader == [kind |-> "summary", total |-> None]

\* &data[21..]: the line without the word it was sorted by
StripKey(line) ==
  [kind |-> "row", name |-> line.name, counter |-> line.counter,
   avg |-> line.avg, total |-> line.total, width |-> line.width]

\* registry_source_stats up to the call of states_from_file_desc_list
RegStatsBody ==
  IF ~dir_exists
  THEN /\ output' = <<>>
       /\ pc' = "done"
       /\ UNCHANGED <<calls, file_descs>>
  ELSE /\ output' = <<RegHeader>>
       /\ calls' = <<"read_dir">> \o [i \in 1..Len(folders) |-> "walk"]
       /\ file_descs' = file_desc_list_from_path
       /\ pc' = "reg_enter"

registry_source_stats ==
  /\ pc = "reg_stats"
  /\ RegStatsBody
  /\ UNCHANGED <<mode, fsVars, bareVars, total_size, regVars, limit,
                 walkVars, decVars>>

\* the loop over the summary that stops at `limit` lines
RegEmit ==
  /\ pc = "reg_emit"
  /\ \E l \in 0..MaxLimit :
       /\ limit' = l
       /\ output' = output \o [i \in 1..Min(l, Len(summary)) |-> StripKey(summary[i])]
  /\ pc' = "done"
  /\ UNCHANGED <<mode, fsVars, calls, file_descs, bareVars, total_size,
                 regVars, walkVars, decVars>>

\* ----------------------------------------------------------- size walker
\* The subtree of one cache entry: its directory r, a file f and a directory
\* d in it, a file g in d.
Nodes == {"r", "f", "d", "g"}
IsDir(n) == n \in {"r", "d"}
Parent(n) == CASE n = "f" -> "r" [] n = "d" -> "r" [] n = "g" -> "d" [] OTHER -> "r"
Children(n) == {c \in Nodes \ {"r"} : Parent(c) = n}

\* a lookup that counts regular files only
MetadataLen_filesOnly(n) == IF IsDir(n) THEN 0 ELSE meta[n]

\* fs::metadata(f).len()
MetadataLen(n) == meta[n]

WalkFrame ==
  UNCHANGED <<mode, fsVars, calls, file_descs, bareVars, total_size, regVars,
              limit, output, meta, decVars>>

\* WalkDir::new(path).into_iter(): the walk starts at the entry itself
WalkEnter ==
  /\ pc = "walk_enter"
  /\ toVisit' = {"r"}
  /\ pc' = "walk"
  /\ UNCHANGED <<alive, collected, size, panic_path>>
  /\ WalkFrame

\* the iterator yields the next entry: e.unwrap() panics on the error that
\* WalkDir reports for a directory it cannot open, a directory that is
\* opened queues the entries it holds, and what passes filter(exists) is
\* collected
WalkVisit ==
  /\ pc = "walk"
  /\ \E n \in toVisit :
       IF IsDir(n) /\ n \notin alive
       THEN /\ pc' = "panicked"
            /\ panic_path' = Some([at |-> "walkdir", path |-> n])
            /\ UNCHANGED <<toVisit, collected>>
       ELSE /\ toVisit' = (toVisit \ {n}) \cup
                            (IF IsDir(n) THEN Children(n) \cap alive ELSE {})
            /\ collected' = IF n \in alive THEN collected \cup {n} ELSE collected
            /\ UNCHANGED <<pc, panic_path>>
  /\ UNCHANGED <<alive, size>>
  /\ WalkFrame

\* collect::<Vec<_>>() is complete
WalkCollect ==
  /\ pc = "walk"
  /\ toVisit = {}
  /\ pc' = "stat"
  /\ UNCHANGED <<alive, toVisit, collected, size, panic_path>>
  /\ WalkFrame

\* par_iter: one collected path, in any order, is looked up and added
Stat ==
  /\ pc = "stat"
  /\ \E n \in collected :
       IF n \in alive
       THEN /\ size' = size + MetadataLen(n)
            /\ collected' = collected \ {n}
            /\ UNCHANGED <<pc, panic_path>>
       ELSE /\ pc' = "panicked"
            /\ panic_path' = Some([at |-> "metadata", path |-> n])
            /\ UNCHANGED <<size, collected>>
  /\ UNCHANGED <<alive, toVisit>>
  /\ WalkFrame

\* .sum() is complete: Self { path, name, size }
WalkReturn ==
  /\ pc = "stat"
  /\ collected = {}
  /\ pc' = "done"
  /\ UNCHANGED <<alive, toVisit, collected, size, panic_path>>
  /\ WalkFrame

\* another process removes an entry below the entry's directory (a file, or
\* a directory that has become empty) while the walker runs
DeleteEntry ==
  /\ mode = "new_from_git_bare"
  /\ pc \in {"walk_enter", "walk", "stat"}
  /\ \E n \in alive \ {"r"} :
       /\ Children(n) \cap alive = {}
       /\ alive' = alive \ {n}
  /\ UNCHANGED <<pc, toVisit, collected, size, panic_path>>
  /\ WalkFrame

\* ------------------------------------- deletion beside the bare-repo fold
RaceFrame ==
  UNCHANGED <<mode, rootExists, folders, calls, file_descs, bareVars,
              total_size, regVars, limit, output, walkVars, decVars>>

\* another process removes a listed bare-repo folder after its descriptor
\* was built, while stats_from_file_desc_list runs
DeleteFolder ==
  /\ mode = "git_repos_bare_stats"
  /\ pc \in {"fold_enter", "fold_loop"}
  /\ \E p \in existing : existing' = existing \ {p}
  /\ pc' = pc
  /\ RaceFrame

\* RepoInfo::new(&current.path, ..) finds that the path exists, the path is
\* removed, and fs::metadata(&path) fails: the unwrap_or_else panics
RepoInfoNewAbort ==
  /\ mode = "git_repos_bare_stats"
  /\ pc = "fold_loop"
  /\ is_some(state.current)
  /\ PathExists(unwrap(state.current).path)
  /\ existing' = existing \ {unwrap(state.current).path}
  /\ pc' = "panicked"
  /\ RaceFrame

\* ------------------------------------------------------ identity decoder
\* get_cache_name(path) on a path whose file name is basename
GetCacheName ==
  /\ pc = "decode"
  /\ name' = get_cache_name(basename)
  /\ pc' = "done"
  /\ UNCHANGED <<mode, fsVars, calls, file_descs, bareVars, total_size,
                 regVars, limit, output, walkVars, basename>>

\* ------------------------------------------------------------- initially
\* file names under the bare-repo root: <name>-<hash>, and one without '-'
BareBases ==
  {<<"a", "-", "x">>, <<"a", "-", "y">>, <<"b", "-", "x">>, <<"c">>}

\* the (path, name) of the descriptors the unit tests build by hand
LiteralNames == {<<"c", "-", "A">>, <<"c", "-", "B">>}

SeqsUpTo(S, n) == UNION {[1..k -> S] : k \in 0..n}

Injective(s) == \A i, j \in 1..Len(s) : i # j => s[i] # s[j]

BareListings ==
  {l \in SeqsUpTo([index : {<<>>}, base : BareBases, size : 0..MaxSize], MaxLen) :
     Injective([i \in 1..Len(l) |-> l[i].base])}

LiteralDescs ==
  {[path |-> n, name |-> n, size |-> z] : n \in LiteralNames, z \in 0..MaxSize}

ParkFold ==
  /\ iter = <<>>
  /\ state = [previous |-> None, current |-> None]
  /\ repoinfo = None
  /\ counter = 0
  /\ total_size = 0
  /\ out = <<>>

ParkReg ==
  /\ current_name = <<>>
  /\ previous_name = <<>>
  /\ summary = <<>>

ParkWalk ==
  /\ alive = {}
  /\ meta = <<>>
  /\ toVisit = {}
  /\ collected = {}
  /\ size = 0
  /\ panic_path = None

ParkDecoder ==
  /\ basename = <<>>
  /\ name = <<>>

ParkReport ==
  /\ calls = <<>>
  /\ limit = 0
  /\ output = <<>>

\* git_repos_bare_stats is called on a root that may not exist
InitBareReport ==
  /\ mode = "git_repos_bare_stats"
  /\ pc = "bare_stats"
  /\ rootExists \in BOOLEAN
  /\ folders \in BareListings
  /\ ~rootExists => folders = <<>>
  /\ existing = {folders[i].base : i \in 1..Len(folders)}
  /\ file_descs = <<>>
  /\ ParkReport /\ ParkFold /\ ParkReg /\ ParkWalk /\ ParkDecoder

\* the unit tests call stats_from_file_desc_list on hand-built descriptors
\* whose paths do not exist
InitBareUnit ==
  /\ mode = "stats_from_file_desc_list"
  /\ pc = "fold_enter"
  /\ rootExists = FALSE
  /\ folders = <<>>
  /\ existing = {}
  /\ file_descs \in SeqsUpTo(LiteralDescs, MaxLen)
  /\ ParkReport /\ ParkFold /\ ParkReg /\ ParkWalk /\ ParkDecoder

\* crate directories below the registry-source root: <index>/<name>-<version>
RegEntries ==
  {[index |-> <<"i">>, base |-> <<"a", "-", "x">>],
   [index |-> <<"i">>, base |-> <<"a", "-", "y">>],
   [index |-> <<"i">>, base |-> <<"b", "-", "x">>],
   [index |-> <<"i">>, base |-> <<"a", "-", "b", "-", "x">>],
   [index |-> <<"j">>, base |-> <<"a", "-", "x">>]}

RegListings ==
  {l \in SeqsUpTo({[index |-> e.index, base |-> e.base, size |-> z] :
                     e \in RegEntries, z \in 0..MaxSize}, MaxLen) :
     Injective([i \in 1..Len(l) |-> RegPath(l[i])])}

\* the descriptors a unit test may build by hand
RegDescs == [name : {<<"a">>, <<"b">>}, size : 0..MaxSize]

\* registry_source_stats is called on a root that may not exist
InitRegReport ==
  /\ mode = "registry_source_stats"
  /\ pc = "reg_stats"
  /\ rootExists \in BOOLEAN
  /\ folders \in RegListings
  /\ ~rootExists => folders = <<>>
  /\ existing = {}
  /\ file_descs = <<>>
  /\ ParkReport /\ ParkFold /\ ParkReg /\ ParkWalk /\ ParkDecoder

\* the unit tests call states_from_file_desc_list on hand-built descriptors
InitRegUnit ==
  /\ mode = "states_from_file_desc_list"
  /\ pc = "reg_enter"
  /\ rootExists = FALSE
  /\ folders = <<>>
  /\ existing = {}
  /\ file_descs \in SeqsUpTo(RegDescs, MaxLen)
  /\ ParkReport /\ ParkFold /\ ParkReg /\ ParkWalk /\ ParkDecoder

\* FileDesc::new_from_git_bare walks an entry that was just listed
InitWalk ==
  /\ mode = "new_from_git_bare"
  /\ pc = "walk_enter"
  /\ rootExists = TRUE
  /\ folders = <<>>
  /\ existing = {}
  /\ file_descs = <<>>
  /\ alive \in {a \in SUBSET Nodes : "r" \in a /\ \A n \in a \ {"r"} : Parent(n) \in a}
  /\ meta \in [Nodes -> 0..MaxSize]
  /\ toVisit = {}
  /\ collected = {}
  /\ size = 0
  /\ panic_path = None
  /\ ParkReport /\ ParkFold /\ ParkReg /\ ParkDecoder

\* get_cache_name is handed a path with a non-empty file name
InitDecoder ==
  /\ mode = "get_cache_name"
  /\ pc = "decode"
  /\ rootExists = FALSE
  /\ folders = <<>>
  /\ existing = {}
  /\ file_descs = <<>>
  /\ basename \in Str(MaxStr) \ {<<>>}
  /\ name = <<>>
  /\ ParkReport /\ ParkFold /\ ParkReg /\ ParkWalk

Init ==
  \/ InitBareReport \/ InitBareUnit
  \/ InitRegReport \/ InitRegUnit
  \/ InitWalk
  \/ InitDecoder

Next ==
  \/ git_repos_bare_stats
  \/ FoldEnter \/ FoldFirst \/ FoldSame \/ FoldDiffer \/ FoldLast
  \/ FoldReturn
  \/ Chkout
  \/ registry_source_stats
  \/ RegEnter \/ RegStep \/ RegSort \/ RegEmit
  \/ WalkEnter \/ WalkVisit \/ WalkCollect \/ Stat \/ WalkReturn
  \/ GetCacheName

\* the program on a file system that nothing else changes
Spec == Init /\ [][Next]_vars

\* the program while another process deletes cache entries
SpecRace ==
  Init /\ [][Next \/ DeleteEntry \/ DeleteFolder \/ RepoInfoNewAbort]_vars

\* ================================================================ claims
BareModes == {"git_repos_bare_stats", "stats_from_file_desc_list"}

\* stats_from_file_desc_list has returned
FoldDone == mode \in BareModes /\ pc \in {"fmt", "done", "panicked"}

DescName(i) == file_descs[i].name

\* the first index of every maximal run of equal names
RunStarts ==
  {i \in 1..Len(file_descs) : i = 1 \/ DescName(i) # DescName(i - 1)}

\* the last index of the run that starts at i
RunEnd(i) ==
  CHOOSE j \in i..Len(file_descs) :
    /\ \A k \in i..j : DescName(k) = DescName(i)
    /\ j = Len(file_descs) \/ DescName(j + 1) # DescName(i)

\* equal names are adjacent
Contiguous ==
  \A i, j \in 1..Len(file_descs) :
    (i < j /\ DescName(i) = DescName(j)) =>
      \A k \in i..j : DescName(k) = DescName(i)

\* the full-grouping strategy: a map from name to (count, total), one
\* record per key
FullGrouping ==
  {[name |-> nm,
    counter |-> Cardinality({i \in 1..Len(file_descs) : DescName(i) = nm}),
    total_size |-> Sum([i \in 1..Len(file_descs) |->
                          IF DescName(i) = nm THEN file_descs[i].size ELSE 0])] :
     nm \in {DescName(i) : i \in 1..Len(file_descs)}}

Triple(r) == [name |-> r.name, counter |-> r.counter, total_size |-> r.total_size]

RECURSIVE SumTotals(_)
SumTotals(S) ==
  IF S = {} THEN 0
  ELSE LET g == CHOOSE y \in S : TRUE IN g.total_size + SumTotals(S \ {g})

RECURSIVE SumCounters(_)
SumCounters(S) ==
  IF S = {} THEN 0
  ELSE LET g == CHOOSE y \in S : TRUE IN g.counter + SumCounters(S \ {g})

\* C1: when the bare-repo fold has returned, out holds exactly one record
\* per maximal run of equal-name descriptors, in run order, with the run's
\* name, length and summed size; if equal names are contiguous these are
\* the full-grouping records, each once; if not, some name has two records.
C1_OneRecordPerRun ==
  FoldDone =>
    /\ Len(out) = Cardinality(RunStarts)
    /\ \A i \in RunStarts :
         LET k == Cardinality({s \in RunStarts : s <= i})
             j == RunEnd(i)
         IN /\ out[k].name = DescName(i)
            /\ out[k].counter = j - i + 1
            /\ out[k].total_size =
                 Sum([m \in 1..(j - i + 1) |-> file_descs[i + m - 1].size])
    /\ Contiguous =>
         /\ {Triple(out[k]) : k \in 1..Len(out)} = FullGrouping
         /\ Len(out) = Cardinality(FullGrouping)
    /\ ~Contiguous =>
         \E k, l \in 1..Len(out) : k # l /\ out[k].name = out[l].name

C1_Witness ==
  /\ pc = "fmt" /\ mode = "git_repos_bare_stats"
  /\ Len(file_descs) = 3 /\ Contiguous
  /\ Len(out) = 2 /\ out[1].counter = 2 /\ out[1].name = <<"a">>
  /\ out[1].total_size = 3

\* C3: the records the fold returns conserve the input: their total sizes
\* add up to the descriptors' sizes and their counters to the number of
\* descriptors; so do the full-grouping records.
C3_Conservation ==
  LET sizes == Sum([i \in 1..Len(file_descs) |-> file_descs[i].size])
  IN FoldDone =>
       /\ Sum([k \in 1..Len(out) |-> out[k].total_size]) = sizes
       /\ Sum([k \in 1..Len(out) |-> out[k].counter]) = Len(file_descs)
       /\ SumTotals(FullGrouping) = sizes
       /\ SumCounters(FullGrouping) = Len(file_descs)

C3_Witness ==
  /\ pc = "fmt" /\ Len(file_descs) = 3 /\ ~Contiguous
  /\ Len(out) = 3
  /\ Sum([k \in 1..Len(out) |-> out[k].total_size]) = 5

\* the rows chkout_list_to_string appended to the report
Rows == SelectSeq(output, LAMBDA ln : ln.kind = "row")

FmtDone == mode \in BareModes /\ pc = "done"

\* ways to lay the rendered rows over the records they were made from
Layouts ==
  {f \in [1..Len(Rows) -> 1..Len(out)] :
     /\ \A k, l \in 1..Len(Rows) : k # l => f[k] # f[l]
     /\ \A k \in 1..Len(Rows) :
          /\ Rows[k].name = out[f[k]].name
          /\ Rows[k].counter = out[f[k]].counter
          /\ Rows[k].total = out[f[k]].total_size}

\* the records with every name replaced by the same one
Anonymous(v) == [i \in 1..Len(v) |-> [v[i] EXCEPT !.name = <<>>]]

\* C4: chkout_list_to_string renders min(limit, #records) rows, in
\* non-increasing total_size order, every rendered record being at least as
\* large as every record cut off; the order of the rows (seen in their
\* counters and totals) is the same when all names are blanked.
C4_TopLimit ==
  FmtDone =>
    /\ Len(Rows) = Min(limit, Len(out))
    /\ \A k, l \in 1..Len(Rows) : k < l => Rows[k].total >= Rows[l].total
    /\ \E f \in Layouts :
         \A i \in 1..Len(out) :
           (\A k \in 1..Len(Rows) : f[k] # i) =>
             \A k \in 1..Len(Rows) : Rows[k].total >= out[i].total_size
    /\ LET blank == chkout_list_to_string(limit, Anonymous(out))
       IN /\ Len(blank) = Len(Rows)
          /\ \A k \in 1..Len(Rows) :
               /\ blank[k].counter = Rows[k].counter
               /\ blank[k].total = Rows[k].total

C4_Witness ==
  /\ FmtDone /\ Len(out) = 3 /\ limit = 2 /\ Len(Rows) = 2
  /\ out[1].total_size = 0 /\ out[2].total_size = 2 /\ out[3].total_size = 1
  /\ Rows[1].name = out[2].name /\ Rows[2].name = out[3].name
  /\ out[1].name # out[2].name

\* C5 as stated: rows of equal total_size stand in the order in which the
\* aggregator emitted their records.
C5_StableTies ==
  FmtDone =>
    \E f \in Layouts :
      \A k, l \in 1..Len(Rows) :
        (k < l /\ Rows[k].total = Rows[l].total) => f[k] < f[l]

\* C5 amended: sort() then reverse() puts rows of equal total_size in the
\* reverse of the order in which the aggregator emitted their records, and
\* rows that are cut off among equals are the earliest emitted.
C5_ReversedTies ==
  FmtDone =>
    \E f \in Layouts :
      /\ \A k, l \in 1..Len(Rows) :
           (k < l /\ Rows[k].total = Rows[l].total) => f[k] > f[l]
      /\ \A i \in 1..Len(out), k \in 1..Len(Rows) :
           ((\A l \in 1..Len(Rows) : f[l] # i)
              /\ out[i].total_size = Rows[k].total) => i < f[k]

C5_Witness ==
  /\ FmtDone /\ Len(out) = 2 /\ Len(Rows) = 2
  /\ out[1].total_size = out[2].total_size
  /\ out[1].name # out[2].name
  /\ Rows[1].name = out[2].name /\ Rows[2].name = out[1].name

RegModes == {"registry_source_stats", "states_from_file_desc_list"}
ReportModes == {"git_repos_bare_stats", "registry_source_stats"}

\* states_from_file_desc_list has returned
RegFoldDone == mode \in RegModes /\ pc \in {"reg_emit", "done"}

\* C2: when equal names are contiguous, the summary of
\* states_from_file_desc_list holds exactly one row per distinct name, with
\* the number of the name's descriptors and the sum of their sizes.
C2_OneRowPerName ==
  (RegFoldDone /\ Contiguous) =>
    /\ {[name |-> summary[k].name, counter |-> summary[k].counter,
         total_size |-> summary[k].total] : k \in 1..Len(summary)} = FullGrouping
    /\ Len(summary) = Cardinality(FullGrouping)

Headers == SelectSeq(output, LAMBDA ln : ln.kind = "summary")

\* C6: while the root does not exist, a report function has made no call to
\* the lazy cache, to read_dir or to the walker, its report is the empty
\* string, and it is either not yet started or has returned.
C6_MissingRoot ==
  (mode \in ReportModes /\ ~rootExists) =>
    /\ calls = <<>>
    /\ output = <<>>
    /\ pc \in {"bare_stats", "reg_stats", "done"}

C6_Witness ==
  /\ mode = "git_repos_bare_stats" /\ ~rootExists /\ pc = "done"
  /\ output = <<>> /\ calls = <<>>

\* C7 as stated: a report on a root that exists and lists nothing is the
\* empty string, and a report has a header only if there is a descriptor.
C7_EmptyListingNoHeader ==
  (mode \in ReportModes /\ pc = "done") =>
    /\ (rootExists /\ folders = <<>>) => output = <<>>
    /\ Headers # <<>> => file_descs # <<>>

\* C7 amended: a report on a root that exists and lists nothing is the
\* header line alone; a report starts with its one header line exactly when
\* the root exists, whether or not there is a descriptor.
C7_HeaderIffRootExists ==
  (mode \in ReportModes /\ pc = "done") =>
    /\ (rootExists /\ folders = <<>>) =>
         output = <<IF mode = "git_repos_bare_stats" THEN BareHeader ELSE RegHeader>>
    /\ rootExists <=> Headers # <<>>
    /\ rootExists => (Len(Headers) = 1 /\ output[1].kind = "summary")

C7_Witness ==
  /\ mode = "git_repos_bare_stats" /\ pc = "done"
  /\ rootExists /\ folders = <<>> /\ file_descs = <<>>
  /\ output = <<BareHeader>> /\ calls # <<>>

WalkMode == mode = "new_from_git_bare"

\* C8: an entry that vanished between being listed and being looked up is
\* skipped: the walker aborts in the metadata lookup only for an entry that
\* still exists.
C8_AbortOnlyForExistingEntry ==
  (WalkMode /\ pc = "panicked" /\ unwrap(panic_path).at = "metadata") =>
    unwrap(panic_path).path \in alive

RECURSIVE SumMeta(_)
SumMeta(S) ==
  IF S = {} THEN 0
  ELSE LET n == CHOOSE x \in S : TRUE IN meta[n] + SumMeta(S \ {n})

\* C9 as stated: on an unchanged file system the size of an entry is the
\* sum of the lengths of the regular files under it.
C9_RegularFilesOnly ==
  (WalkMode /\ pc = "done") => size = SumMeta({n \in alive : ~IsDir(n)})

\* C9 amended: on an unchanged file system the size of an entry is the sum
\* of the metadata lengths of everything the walk yields: the regular files
\* under it and the directories, the entry's own directory included; the
\* walk does not abort.
C9_FilesAndDirectories ==
  WalkMode =>
    /\ pc = "done" => size = SumMeta(alive)
    /\ pc # "panicked"

C9_Witness ==
  /\ WalkMode /\ pc = "done" /\ alive = Nodes
  /\ meta["r"] = 1 /\ meta["d"] = 2 /\ meta["f"] = 2 /\ meta["g"] = 1
  /\ size = 6

NoDash(str) == \A i \in 1..Len(str) : str[i] # Dash

\* C10: the decoder returns the basename cut just before its last '-', and
\* the empty string if it has none: whenever the basename is a name (which
\* may hold '-'), a '-' and a disambiguator without '-', the result is that
\* name; decoding the result with any such disambiguator appended again
\* gives the result back.
C10_CutAtLastDash ==
  (mode = "get_cache_name" /\ pc = "done") =>
    /\ NoDash(basename) => name = <<>>
    /\ \A k \in 1..Len(basename) :
         LET nm == SubSeq(basename, 1, k - 1)
             disambiguator == SubSeq(basename, k + 1, Len(basename))
         IN (basename[k] = Dash /\ NoDash(disambiguator)) => name = nm
    /\ \A d \in {<<>>, <<"a">>, <<"b", "a">>} :
         get_cache_name(name \o <<Dash>> \o d) = name

C10_Witness ==
  /\ mode = "get_cache_name" /\ pc = "done"
  /\ basename = <<"a", "-", "b", "-", "a">>
  /\ name = <<"a", "-", "b">>

\* C11: in every state of the bare-repo fold and of the formatter, every
\* record in out has counter >= 1 and is not one of the placeholders
\* ("err1", "err2", counter 0), and the formatter's division
\* total_size / counter has not panicked; every rendered average is the
\* truncated quotient.
C11_CounterAtLeastOne ==
  mode \in BareModes =>
    /\ \A k \in 1..Len(out) :
         /\ out[k].counter >= 1
         /\ out[k].name \notin {ERR1, ERR2}
    /\ pc # "panicked"
    /\ \A k \in 1..Len(Rows) :
         /\ Rows[k].counter >= 1
         /\ Rows[k].avg * Rows[k].counter <= Rows[k].total
         /\ (Rows[k].avg + 1) * Rows[k].counter > Rows[k].total

C11_Witness ==
  /\ FmtDone /\ Len(out) = 2 /\ Len(Rows) = 2
  /\ Rows[1].counter = 2 /\ Rows[1].total = 3 /\ Rows[1].avg = 1
  /\ repoinfo.counter = 0 /\ repoinfo.name = ERR2

\* C12 as stated: in both reports every rendered row is padded to the
\* longest name among the rendered rows plus TOP_CRATES_SPACING.
C12_WidthOfRenderedBoth ==
  ((mode \in BareModes \/ mode = "registry_source_stats") /\ pc = "done") =>
    \A k \in 1..Len(Rows) :
      Rows[k].width = MaxNameLen(Rows) + TOP_CRATES_SPACING

\* C12 amended: in the bare-repo report every rendered row is padded to the
\* longest name among the rendered rows plus TOP_CRATES_SPACING, whatever
\* the names of the records cut off; in the registry-source report every
\* line is padded to the longest name among all descriptors handed to the
\* aggregator, rendered or not, with no spacing added.
C12_WidthPerReport ==
  /\ FmtDone =>
       \A k \in 1..Len(Rows) :
         Rows[k].width = MaxNameLen(Rows) + TOP_CRATES_SPACING
  /\ (mode \in RegModes /\ pc = "done") =>
       /\ \A k \in 1..Len(Rows) : Rows[k].width = MaxNameLen(file_descs)
       /\ \A k \in 1..Len(summary) : summary[k].width = MaxNameLen(file_descs)

C12_Witness ==
  /\ FmtDone /\ mode = "git_repos_bare_stats"
  /\ Len(out) = 2 /\ limit = 1 /\ Len(Rows) = 1
  /\ Rows[1].name = <<>> /\ Rows[1].width = TOP_CRATES_SPACING
  /\ \E k \in 1..2 : Len(out[k].name) = 1

\* C13: for the empty descriptor sequence the bare-repo fold returns no
\* record and the registry aggregator no line, and the formatter, whatever
\* the limit, appends nothing: called on its own it returns the empty
\* string.
C13_EmptyInput ==
  /\ (FoldDone /\ file_descs = <<>>) =>
       /\ out = <<>>
       /\ pc # "panicked"
       /\ Rows = <<>>
       /\ (mode = "stats_from_file_desc_list" /\ pc = "done") => output = <<>>
  /\ (RegFoldDone /\ file_descs = <<>>) =>
       /\ summary = <<>>
       /\ Rows = <<>>

C13_Witness ==
  /\ mode = "stats_from_file_desc_list" /\ pc = "done"
  /\ file_descs = <<>> /\ limit = 4
  /\ out = <<>> /\ output = <<>>

\* C14: once file_desc_list_from_path has sorted the listed paths and built
\* the descriptors, descriptors with equal names are contiguous.
C14_SortedPathsContiguous ==
  (mode = "registry_source_stats" /\ pc # "reg_stats") => Contiguous

\* C15: every record the bare-repo fold has emitted shows the decoded name
\* (FileDesc.name) of the descriptors of its run, and building a record
\* never aborts, also while another process deletes the entries' paths.
C15_RecordNameIsDescriptorName ==
  mode \in BareModes =>
    /\ pc # "panicked"
    /\ \A i \in RunStarts :
         LET k == Cardinality({r \in RunStarts : r <= i})
         IN k <= Len(out) => out[k].name = DescName(i)

====
